---------------------------- MODULE Spec2Model ----------------------------
(***************************************************************************)
(* Model of the trust-bootstrap code of talos (src/pkg/config/config.go):  *)
(*   - package gen: NewRemoteGenerator, RemoteGenerator.Identity / poll /  *)
(*     Certificate (endpoint failover and the certificate polling loop);   *)
(*   - package generate: the accessors of Input that need master IPs.      *)
(* Each specification below drives one group of variables and leaves the   *)
(* other group at its idle value.                                          *)
(***************************************************************************)
EXTENDS Integers, Sequences, FiniteSets, TLC

(***************************************************************************)
(* Bounds of the model.                                                    *)
(***************************************************************************)
\* longest endpoint list handed to NewRemoteGenerator
MaxEndpoints == 3
\* the clock (seconds since poll() armed its timers) stops here
MaxTime == 302
\* consecutive failed polls are counted up to here
MaxFailures == 3
\* longest MasterIPs list of an Input
MaxMasters == 2
\* longest AdditionalSubjectAltNames list of an Input
MaxAltNames == 2
\* randBytes is called with lengths 0..MaxLen
MaxLen == 3
\* calls of the package cis functions in one behaviour
MaxCalls == 3
\* the file grows to at most MaxFile bytes
MaxFile == 2
\* chunk sizes 1..MaxSize
MaxSize == 3
\* events waiting in watcher.Events
MaxEvents == 2
\* events other than appends in one behaviour
MaxInjected == 1

(***************************************************************************)
(* Program constants.                                                      *)
(***************************************************************************)
\* time.NewTicker(time.Second * 5)
PollInterval == 5
\* time.NewTimer(time.Minute * 5), in seconds
PollTimeout == 300

\* trustd addresses an endpoint list is drawn from
Addrs == {"t1", "t2", "t3"}
\* why basic.NewConnection can fail
DialErrs == {"refused", "unreachable"}

\* Go's nil pointer / absent string
Nil == "nil"
\* a nil error; an error value is the sequence of its entries
NoError == <<>>
\* fmt.Errorf("at least one root of trust endpoint is required")
ErrNoEndpoints == <<[addr |-> "", why |-> "at least one root of trust endpoint is required"]>>
\* fmt.Errorf("timeout waiting for certificate")
ErrTimeout == <<[addr |-> "", why |-> "timeout waiting for certificate"]>>

\* a nil or empty byte slice (a field of CertificateResponse absent or empty)
NoBytes == <<>>
\* the responses g.client.Certificate can deliver with a nil error
Responses == [Ca : {NoBytes, <<"CA">>}, Crt : {NoBytes, <<"CRT">>}]

VARIABLES
    \* ---- package gen ----
    endpoints,        \* NewRemoteGenerator's argument
    i,                \* its loop index (0-based, as in the source)
    multiError,       \* *multierror.Error: the sequence of appended errors
    dialLog,          \* history of the basic.NewConnection calls made
    g,                \* the client address of the *RemoteGenerator returned, or Nil
    retErr,           \* the error returned by the last call that returned
    pc,               \* where the caller's goroutine is
    now,              \* seconds since poll() created timer and ticker
    tickC,            \* tick.C holds a value (buffer of 1)
    timeoutC,         \* timeout.C holds a value (buffer of 1)
    inflight,         \* g.client.Certificate calls sent and not returned
    submitted,        \* a Certificate call has been sent by this Identity call
    lastResp,         \* outcome of the last Certificate call: none, err, ok
    ca, crt,          \* what poll() returned
    failures,         \* consecutive failed polls logged (counted up to MaxFailures)
    cancelRequested,  \* the caller wants to abandon the call
    cancelAge,        \* seconds passed since then (counted up to PollInterval + 1)
    \* ---- package generate ----
    input,            \* the *Input an accessor is called on
    arg,              \* argument of the last accessor call ("" when it takes none)
    res,              \* result of the last accessor call
    aborted,          \* the process died of a panic
    \* ---- package generate: NewInput ----
    masterIPs,        \* NewInput's argument
    nipc,             \* where NewInput is: begin, step, done, failed
    step,             \* index in StepOrder of the step NewInput is about to run
    loopbackIP,       \* its locals
    podNet,
    serviceNet,
    ran,              \* history of the steps that ran
    vals,             \* what the steps that succeeded produced
    niInput,          \* the *Input NewInput returned
    niErr,            \* the error NewInput returned
    \* ---- package generate: randBytes, genToken, generateCertificateKey ----
    pattern,          \* the entropy source: these bytes, over and over
    phase,            \* index in pattern of the byte the next read returns
    call,             \* the function called, with its arguments
    tpc,              \* where the call is
    part,             \* genToken: index of the randBytes call it is in
    length,           \* randBytes: its argument
    token,            \* randBytes: the characters stored so far
    b,                \* randBytes: the byte read last
    rbRet,            \* what randBytes returned
    tokenTemp,        \* genToken: its two parts
    ret,              \* what the function called returned
    \* ---- package cis: the compliance artifacts on disk ----
    auditFile,        \* the file at constants.AuditPolicyPath
    encFile,          \* the file at constants.EncryptionConfigPath
    isRoot,           \* the process may write files whatever their mode
    cisOp,            \* the function called last
    cisErr,           \* what the last call returned
    cisCalls,         \* number of calls made
    enforced,         \* an EnforceCommonMasterRequirements call has succeeded
    auditWrites,      \* number of times the audit policy was written
    \* ---- package file: the chunker of a growing file ----
    size,             \* c.options.Size
    fileLen,          \* bytes in the file; the byte at offset k is byte k
    removed,          \* the file was removed from its directory
    events,           \* watcher.Events: the events not yet received
    injected,         \* number of events other than appends put in events
    cancelled,        \* ctx is cancelled
    cpc,              \* where the reader goroutine is
    offset,           \* its read offset
    nread,            \* n: bytes returned by its last ReadAt
    eof,              \* the err of its last ReadAt is io.EOF
    chunk,            \* b: the bytes it is delivering, as offsets [from, to)
    chBuf,            \* ch: the chunks sent and not yet received
    sent,             \* history: the chunks sent on ch
    closes,           \* number of times ch was closed
    exitWhy,          \* why the reader goroutine returned
    \* ---- package archiver: Walker ----
    rootPath,         \* rootPath, as a sequence of characters
    tree,             \* the file tree at rootPath: what each relative path is
                      \* ("unreadable": filepath.Walk fails to read it)
    maxRecurseDepth,  \* opts.maxRecurseDepth
    skipRoot,         \* opts.skipRoot
    wpc,              \* where Walker and its goroutine are
    todo,             \* the paths filepath.Walk has still to visit, in order
    wItem,            \* item: the FileItem of the current callback
    wSent,            \* history: the items received from ch
    wCancelled,       \* ctx is cancelled
    receiving,        \* the consumer still receives from ch
    walkRet,          \* err: what filepath.Walk returned
    wCloses,          \* number of times ch was closed
    started,          \* the goroutine was started
    wErr              \* the error Walker returned

remoteVars == <<endpoints, i, multiError, dialLog, g, retErr, pc, now, tickC,
                timeoutC, inflight, submitted, lastResp, ca, crt, failures,
                cancelRequested, cancelAge>>
inputVars == <<input, arg, res, aborted>>
newInputVars == <<masterIPs, nipc, step, loopbackIP, podNet, serviceNet, ran,
                  vals, niInput, niErr>>
tokenVars == <<pattern, phase, call, tpc, part, length, token, b, rbRet,
               tokenTemp, ret>>
cisVars == <<auditFile, encFile, isRoot, cisOp, cisErr, cisCalls, enforced, auditWrites>>
chunkVars == <<size, fileLen, removed, events, injected, cancelled, cpc, offset, nread,
               eof, chunk, chBuf, sent, closes, exitWhy>>
walkVars == <<rootPath, tree, maxRecurseDepth, skipRoot, wpc, todo, wItem, wSent,
              wCancelled, receiving, walkRet, wCloses, started, wErr>>
vars == <<remoteVars, inputVars, newInputVars, tokenVars, cisVars, chunkVars, walkVars>>
\* what the actions of each group leave alone
notRemote == <<inputVars, newInputVars, tokenVars, cisVars, chunkVars, walkVars>>
notInput == <<remoteVars, newInputVars, tokenVars, cisVars, chunkVars, walkVars>>
notNewInput == <<remoteVars, inputVars, tokenVars, cisVars, chunkVars, walkVars>>
notToken == <<remoteVars, inputVars, newInputVars, cisVars, chunkVars, walkVars>>
notCis == <<remoteVars, inputVars, newInputVars, tokenVars, chunkVars, walkVars>>
notChunker == <<remoteVars, inputVars, newInputVars, tokenVars, cisVars, walkVars>>
notWalker == <<remoteVars, inputVars, newInputVars, tokenVars, cisVars, chunkVars>>

(***************************************************************************)
(* Helpers.                                                                *)
(***************************************************************************)
\* sequences over S of length 0..n
SeqsUpTo(S, n) == UNION {[1..k -> S] : k \in 0..n}

(***************************************************************************)
(* package gen: NewRemoteGenerator.                                        *)
(***************************************************************************)
\* (*multierror.Error).ErrorOrNil: nil when nothing was appended
ErrorOrNil(me) == IF Len(me) = 0 THEN NoError ELSE me

\* a variant that keeps only the error of the last attempt
MultiAppendLast(me, err) == <<err>>

\* multierror.Append(multiError, err)
MultiAppend(me, err) == Append(me, err)

\* the error basic.NewConnection returns for endpoint ep
ConnErr(ep, why) == [addr |-> ep, why |-> why]

\* the locals of NewRemoteGenerator are gone once it has returned
SelectIdle ==
    /\ endpoints = <<>>
    /\ i = 0
    /\ multiError = <<>>
    /\ dialLog = <<>>

PollIdle ==
    /\ now = 0
    /\ tickC = FALSE
    /\ timeoutC = FALSE
    /\ inflight = 0
    /\ submitted = FALSE
    /\ lastResp = "none"
    /\ ca = NoBytes
    /\ crt = NoBytes
    /\ failures = 0

pollVars == <<now, tickC, timeoutC, inflight, submitted, lastResp, ca, crt,
              failures>>
cancelVars == <<cancelRequested, cancelAge>>

InitRemote ==
    /\ endpoints \in SeqsUpTo(Addrs, MaxEndpoints)
    /\ i = 0
    /\ multiError = <<>>
    /\ dialLog = <<>>
    /\ g = Nil
    /\ retErr = NoError
    /\ pc = "Select"
    /\ PollIdle
    /\ cancelRequested = FALSE
    /\ cancelAge = 0

IdleRemote ==
    /\ SelectIdle
    /\ g = Nil
    /\ retErr = NoError
    /\ pc = "Idle"
    /\ PollIdle
    /\ cancelRequested = FALSE
    /\ cancelAge = 0

\* a variant of NoEndpoints that falls through to the return after the loop
NoEndpointsFallsThrough ==
    /\ pc = "Select"
    /\ Len(endpoints) = 0
    /\ pc' = "Failed"
    /\ g' = Nil
    /\ retErr' = ErrorOrNil(multiError)
    /\ UNCHANGED notRemote
    /\ UNCHANGED <<endpoints, i, multiError, dialLog, pollVars, cancelVars>>

\* len(endpoints) == 0: return nil, fmt.Errorf(...)
NoEndpoints ==
    /\ pc = "Select"
    /\ Len(endpoints) = 0
    /\ pc' = "Failed"
    /\ g' = Nil
    /\ retErr' = ErrNoEndpoints
    /\ UNCHANGED notRemote
    /\ UNCHANGED <<endpoints, i, multiError, dialLog, pollVars, cancelVars>>

\* basic.NewConnection(endpoints[i], ...) fails: append the error, continue
DialFail(why) ==
    /\ pc = "Select"
    /\ i < Len(endpoints)
    /\ dialLog' = Append(dialLog, [idx |-> i, ep |-> endpoints[i + 1],
                                   ok |-> FALSE, why |-> why])
    /\ multiError' = MultiAppend(multiError, ConnErr(endpoints[i + 1], why))
    /\ i' = i + 1
    /\ UNCHANGED notRemote
    /\ UNCHANGED <<endpoints, g, retErr, pc, pollVars, cancelVars>>

\* a variant of DialOk that keeps the connection but goes on with the loop
DialOkNoReturn ==
    /\ pc = "Select"
    /\ i < Len(endpoints)
    /\ dialLog' = Append(dialLog, [idx |-> i, ep |-> endpoints[i + 1],
                                   ok |-> TRUE, why |-> Nil])
    /\ g' = endpoints[i + 1]
    /\ retErr' = NoError
    /\ i' = i + 1
    /\ UNCHANGED notRemote
    /\ UNCHANGED <<endpoints, multiError, pc, pollVars, cancelVars>>

\* a variant of DialOk that returns the errors collected so far with the generator
DialOkWithErrors ==
    /\ pc = "Select"
    /\ i < Len(endpoints)
    /\ dialLog' = Append(dialLog, [idx |-> i, ep |-> endpoints[i + 1],
                                   ok |-> TRUE, why |-> Nil])
    /\ g' = endpoints[i + 1]
    /\ retErr' = ErrorOrNil(multiError)
    /\ pc' = "Connected"
    /\ UNCHANGED notRemote
    /\ UNCHANGED <<endpoints, i, multiError, pollVars, cancelVars>>

\* basic.NewConnection(endpoints[i], ...) succeeds:
\* return &RemoteGenerator{client: client}, nil
DialOk ==
    /\ pc = "Select"
    /\ i < Len(endpoints)
    /\ dialLog' = Append(dialLog, [idx |-> i, ep |-> endpoints[i + 1],
                                   ok |-> TRUE, why |-> Nil])
    /\ g' = endpoints[i + 1]
    /\ retErr' = NoError
    /\ pc' = "Connected"
    /\ UNCHANGED notRemote
    /\ UNCHANGED <<endpoints, i, multiError, pollVars, cancelVars>>

\* the loop ran out of endpoints: return nil, multiError.ErrorOrNil()
AllFailed ==
    /\ pc = "Select"
    /\ Len(endpoints) > 0
    /\ i = Len(endpoints)
    /\ g' = Nil
    /\ retErr' = ErrorOrNil(multiError)
    /\ pc' = "Failed"
    /\ UNCHANGED notRemote
    /\ UNCHANGED <<endpoints, i, multiError, dialLog, pollVars, cancelVars>>

(***************************************************************************)
(* package gen: RemoteGenerator.Identity, poll and Certificate.            *)
(* The clock counts seconds.  A select with a ready channel proceeds at    *)
(* once, so time passes only while the goroutine is blocked: in a select   *)
(* with both channels empty, or in a Certificate call, which runs under    *)
(* context.Background() and so has no deadline of its own.                 *)
(***************************************************************************)
Running == {"Select", "Polling", "InFlight"}

\* a variant of Identity that sends the request once before it enters poll()
IdentitySingleShot ==
    /\ pc = "Connected"
    /\ g # Nil
    /\ pc' = "InFlight"
    /\ now' = 0
    /\ tickC' = FALSE
    /\ timeoutC' = FALSE
    /\ inflight' = 1
    /\ submitted' = TRUE
    /\ lastResp' = "none"
    /\ ca' = NoBytes
    /\ crt' = NoBytes
    /\ failures' = 0
    /\ endpoints' = <<>>
    /\ i' = 0
    /\ multiError' = <<>>
    /\ dialLog' = <<>>
    /\ UNCHANGED notRemote
    /\ UNCHANGED <<g, retErr, cancelVars>>

\* Identity builds the request and enters poll(): timer and ticker are armed,
\* nothing is sent yet
Identity ==
    /\ pc = "Connected"
    /\ g # Nil
    /\ pc' = "Polling"
    /\ now' = 0
    /\ tickC' = FALSE
    /\ timeoutC' = FALSE
    /\ inflight' = 0
    /\ submitted' = FALSE
    /\ lastResp' = "none"
    /\ ca' = NoBytes
    /\ crt' = NoBytes
    /\ failures' = 0
    \* NewRemoteGenerator's argument and locals went out of scope at its return
    /\ endpoints' = <<>>
    /\ i' = 0
    /\ multiError' = <<>>
    /\ dialLog' = <<>>
    /\ UNCHANGED notRemote
    /\ UNCHANGED <<g, retErr, cancelVars>>

\* one second passes; the ticker and the timer fill their channels
\* (a runtime timer drops the value when the buffer of 1 is full)
Tick ==
    /\ pc \in {"Polling", "InFlight"}
    /\ pc = "Polling" => (~tickC /\ ~timeoutC)
    /\ now < MaxTime
    /\ now' = now + 1
    /\ tickC' = (tickC \/ (now' % PollInterval = 0))
    /\ timeoutC' = (timeoutC \/ (now' = PollTimeout))
    /\ cancelAge' = IF cancelRequested /\ cancelAge <= PollInterval
                    THEN cancelAge + 1 ELSE cancelAge
    /\ UNCHANGED notRemote
    /\ UNCHANGED <<endpoints, i, multiError, dialLog, g, retErr, pc, inflight,
                   submitted, lastResp, ca, crt, failures, cancelRequested>>

\* case <-timeout.C: return nil, nil, fmt.Errorf("timeout waiting for certificate")
PollTimedOut ==
    /\ pc = "Polling"
    /\ timeoutC
    /\ timeoutC' = FALSE
    /\ pc' = "TimedOut"
    /\ retErr' = ErrTimeout
    /\ ca' = NoBytes
    /\ crt' = NoBytes
    /\ UNCHANGED notRemote
    /\ UNCHANGED <<endpoints, i, multiError, dialLog, g, now, tickC, inflight,
                   submitted, lastResp, failures, cancelVars>>

\* a variant of PollTick that sends the request and does not wait for its return
PollTickAsync ==
    /\ pc = "Polling"
    /\ tickC
    /\ tickC' = FALSE
    /\ inflight' = inflight + 1
    /\ submitted' = TRUE
    /\ lastResp' = "none"
    /\ UNCHANGED notRemote
    /\ UNCHANGED <<endpoints, i, multiError, dialLog, g, retErr, pc, now,
                   timeoutC, ca, crt, failures, cancelVars>>

\* case <-tick.C: resp, err = g.Certificate(in) -- the request goes out
PollTick ==
    /\ pc = "Polling"
    /\ tickC
    /\ tickC' = FALSE
    /\ inflight' = inflight + 1
    /\ submitted' = TRUE
    /\ lastResp' = "none"
    /\ pc' = "InFlight"
    /\ UNCHANGED notRemote
    /\ UNCHANGED <<endpoints, i, multiError, dialLog, g, retErr, now, timeoutC,
                   ca, crt, failures, cancelVars>>

\* a variant of CertificateErr that returns the error of the failed poll
CertificateErrReturns ==
    /\ pc = "InFlight"
    /\ inflight' = inflight - 1
    /\ lastResp' = "err"
    /\ failures' = IF failures < MaxFailures THEN failures + 1 ELSE failures
    /\ retErr' = <<[addr |-> g, why |-> "certificate request failed"]>>
    /\ pc' = "Failed"
    /\ UNCHANGED notRemote
    /\ UNCHANGED <<endpoints, i, multiError, dialLog, g, now, tickC, timeoutC,
                   submitted, ca, crt, cancelVars>>

\* g.Certificate returned an error: log.Println(err); continue
CertificateErr ==
    /\ pc = "InFlight"
    /\ inflight' = inflight - 1
    /\ lastResp' = "err"
    /\ failures' = IF failures < MaxFailures THEN failures + 1 ELSE failures
    /\ pc' = "Polling"
    /\ UNCHANGED notRemote
    /\ UNCHANGED <<endpoints, i, multiError, dialLog, g, retErr, now, tickC,
                   timeoutC, submitted, ca, crt, cancelVars>>

\* g.Certificate returned resp, nil: ca = resp.Ca; crt = resp.Crt;
\* return ca, crt, nil
CertificateOk(resp) ==
    /\ pc = "InFlight"
    /\ inflight' = inflight - 1
    /\ lastResp' = "ok"
    /\ ca' = resp.Ca
    /\ crt' = resp.Crt
    /\ retErr' = NoError
    /\ pc' = "Issued"
    /\ UNCHANGED notRemote
    /\ UNCHANGED <<endpoints, i, multiError, dialLog, g, now, tickC, timeoutC,
                   submitted, failures, cancelVars>>

\* the caller decides to abandon the call.  Neither NewRemoteGenerator nor
\* Identity takes a context, and Certificate builds context.Background():
\* nothing in the call reads this
Cancel ==
    /\ pc \in Running
    /\ ~cancelRequested
    /\ cancelRequested' = TRUE
    /\ cancelAge' = 0
    /\ UNCHANGED notRemote
    /\ UNCHANGED <<endpoints, i, multiError, dialLog, g, retErr, pc, pollVars>>

NextRemote ==
    \/ NoEndpoints
    \/ \E why \in DialErrs : DialFail(why)
    \/ DialOk
    \/ AllFailed
    \/ Identity
    \/ Tick
    \/ PollTimedOut
    \/ PollTick
    \/ CertificateErr
    \/ \E resp \in Responses : CertificateOk(resp)
    \/ Cancel

(***************************************************************************)
(* package generate: the accessors of Input that need master IPs.          *)
(* A panic that nothing recovers ends the process: no accessor runs after. *)
(***************************************************************************)
\* master addresses an Input is built from
IPs == {"10.0.0.1", "10.0.0.2", "fd00::1"}
\* the addresses of IPs that contain a colon (the IPv6 literals)
ColonIPs == {"fd00::1"}
\* values of Input.ControlPlaneEndpoint ("" is unset)
CPEndpoints == {"", "cp.example.com:443"}
\* port arguments of GetAPIServerEndpoint
Ports == {"", "6443"}
\* entries of Input.AdditionalSubjectAltNames (one repeats a master address)
AltNames == {"10.0.0.1", "api.example.com"}

PanicEndpoints == "cannot Endpoints without any Master IPs"
PanicControlPlane == "cannot GetControlPlaneEndpoint without any Master IPs"

\* an *Input: isNil marks the nil pointer
Inputs == [isNil : {FALSE}, MasterIPs : SeqsUpTo(IPs, MaxMasters),
           ControlPlaneEndpoint : CPEndpoints,
           AdditionalSubjectAltNames : SeqsUpTo(AltNames, MaxAltNames)]
NilInput == [isNil |-> TRUE, MasterIPs |-> <<>>, ControlPlaneEndpoint |-> "",
             AdditionalSubjectAltNames |-> <<>>]

NoResult == [op |-> "none", kind |-> "none", val |-> Nil]

\* strings.Join(elems, sep)
RECURSIVE Join(_, _)
Join(elems, sep) ==
    IF Len(elems) = 0 THEN ""
    ELSE IF Len(elems) = 1 THEN elems[1]
    ELSE elems[1] \o sep \o Join(Tail(elems), sep)

\* net.JoinHostPort: a host holding a colon is put in brackets
JoinHostPort(host, port) ==
    IF host \in ColonIPs THEN "[" \o host \o "]:" \o port
    ELSE host \o ":" \o port

\* tnet.FormatAddress: an IPv6 literal is put in brackets
FormatAddress(addr) ==
    IF addr \in ColonIPs THEN "[" \o addr \o "]" ELSE addr

\* i == nil || len(i.MasterIPs) < 1
NoMasters(in) == in.isNil \/ Len(in.MasterIPs) < 1

\* what a call leaves behind: a returned value, or a panic
Returned(op, v) == [op |-> op, kind |-> "value", val |-> v]
Panicked(op, msg) == [op |-> op, kind |-> "panic", val |-> msg]
\* a returned []string
ReturnedList(op, l) == [op |-> op, kind |-> "list", val |-> l]
\* the runtime's panic on i.MasterIPs with i == nil
PanicNilDeref == "invalid memory address or nil pointer dereference"

InitInput ==
    /\ input \in Inputs \cup {NilInput}
    /\ arg = ""
    /\ res = NoResult
    /\ aborted = FALSE

IdleInput ==
    /\ input = NilInput
    /\ arg = ""
    /\ res = NoResult
    /\ aborted = FALSE

\* func (i *Input) Endpoints() string
Endpoints ==
    /\ ~aborted
    /\ arg' = ""
    /\ IF NoMasters(input)
       THEN /\ res' = Panicked("Endpoints", PanicEndpoints)
            /\ aborted' = TRUE
       ELSE /\ res' = Returned("Endpoints", Join(input.MasterIPs, ","))
            /\ aborted' = FALSE
    /\ UNCHANGED <<input, notInput>>

\* a variant of GetAPIServerEndpoint that refers to the last master
GetAPIServerEndpointLast(port) ==
    /\ ~aborted
    /\ arg' = port
    /\ IF NoMasters(input)
       THEN /\ res' = Panicked("GetAPIServerEndpoint", PanicControlPlane)
            /\ aborted' = TRUE
       ELSE LET refMaster == Len(input.MasterIPs) - 1 IN
            /\ res' = Returned("GetAPIServerEndpoint",
                               IF port = ""
                               THEN FormatAddress(input.MasterIPs[refMaster + 1])
                               ELSE JoinHostPort(input.MasterIPs[refMaster + 1], port))
            /\ aborted' = FALSE
    /\ UNCHANGED <<input, notInput>>

\* func (i *Input) GetAPIServerEndpoint(port string) string
GetAPIServerEndpoint(port) ==
    /\ ~aborted
    /\ arg' = port
    /\ IF NoMasters(input)
       THEN /\ res' = Panicked("GetAPIServerEndpoint", PanicControlPlane)
            /\ aborted' = TRUE
       ELSE LET refMaster == 0 IN
            /\ res' = Returned("GetAPIServerEndpoint",
                               IF port = ""
                               THEN FormatAddress(input.MasterIPs[refMaster + 1])
                               ELSE JoinHostPort(input.MasterIPs[refMaster + 1], port))
            /\ aborted' = FALSE
    /\ UNCHANGED <<input, notInput>>

\* a variant of GetControlPlaneEndpoint that prefers the first master
GetControlPlaneEndpointMasterFirst ==
    /\ ~aborted
    /\ arg' = ""
    /\ IF input.isNil \/ (Len(input.MasterIPs) < 1 /\ input.ControlPlaneEndpoint = "")
       THEN /\ res' = Panicked("GetControlPlaneEndpoint", PanicControlPlane)
            /\ aborted' = TRUE
       ELSE /\ res' = Returned("GetControlPlaneEndpoint",
                               IF Len(input.MasterIPs) > 0
                               THEN FormatAddress(input.MasterIPs[1])
                               ELSE input.ControlPlaneEndpoint)
            /\ aborted' = FALSE
    /\ UNCHANGED <<input, notInput>>

\* func (i *Input) GetControlPlaneEndpoint() string
GetControlPlaneEndpoint ==
    /\ ~aborted
    /\ arg' = ""
    /\ IF input.isNil \/ (Len(input.MasterIPs) < 1 /\ input.ControlPlaneEndpoint = "")
       THEN /\ res' = Panicked("GetControlPlaneEndpoint", PanicControlPlane)
            /\ aborted' = TRUE
       ELSE /\ res' = Returned("GetControlPlaneEndpoint",
                               IF input.ControlPlaneEndpoint # ""
                               THEN input.ControlPlaneEndpoint
                               ELSE FormatAddress(input.MasterIPs[1]))
            /\ aborted' = FALSE
    /\ UNCHANGED <<input, notInput>>

\* a variant that drops an entry already in the list
RECURSIVE Dedup(_)
Dedup(l) ==
    IF Len(l) = 0 THEN <<>>
    ELSE LET front == Dedup(SubSeq(l, 1, Len(l) - 1))
             last == l[Len(l)]
         IN IF \E k \in 1..Len(front) : front[k] = last
            THEN front ELSE Append(front, last)
APIServerSANsDedup(in) ==
    Dedup(<<"127.0.0.1", "::1">> \o in.MasterIPs \o in.AdditionalSubjectAltNames)

\* list := []string{"127.0.0.1", "::1"}; append MasterIPs, then
\* AdditionalSubjectAltNames (both appends copy: list has no spare capacity)
APIServerSANs(in) ==
    LET list0 == <<"127.0.0.1", "::1">>
        list1 == list0 \o in.MasterIPs
    IN list1 \o in.AdditionalSubjectAltNames

\* func (i *Input) GetAPIServerSANs() []string
GetAPIServerSANs ==
    /\ ~aborted
    /\ arg' = ""
    /\ IF input.isNil
       THEN /\ res' = Panicked("GetAPIServerSANs", PanicNilDeref)
            /\ aborted' = TRUE
       ELSE /\ res' = ReturnedList("GetAPIServerSANs", APIServerSANs(input))
            /\ aborted' = FALSE
    /\ UNCHANGED <<input, notInput>>

NextInput ==
    \/ Endpoints
    \/ \E port \in Ports : GetAPIServerEndpoint(port)
    \/ GetControlPlaneEndpoint
    \/ GetAPIServerSANs

(***************************************************************************)
(* package generate: NewInput.  The generators it calls (genToken,         *)
(* generateCertificateKey, cis.CreateEncryptionToken, the x509 package)    *)
(* are steps that succeed or fail.                                         *)
(***************************************************************************)
DefaultIPv4PodNet == "10.244.0.0/16"
DefaultIPv4ServiceNet == "10.96.0.0/12"
DefaultIPv6PodNet == "fc00:db8:10::/56"
DefaultIPv6ServiceNet == "fc00:db8:20::/112"

\* entries of NewInput's masterIPs: an IPv4 address, an IPv6 address, an
\* IPv4-mapped IPv6 address and a host name
MasterArgs == {"10.0.0.1", "fd00::1", "::ffff:10.0.0.2", "master-1.local"}
\* net.ParseIP(a) != nil
ParsesAsIP == {"10.0.0.1", "fd00::1", "::ffff:10.0.0.2"}
\* ip.To4() != nil
HasTo4 == {"10.0.0.1", "::ffff:10.0.0.2"}

\* the loop of isIPv6: true at the first entry that parses and has no To4
RECURSIVE isIPv6Loop(_)
isIPv6Loop(addrs) ==
    IF Len(addrs) = 0 THEN FALSE
    ELSE IF Head(addrs) \in ParsesAsIP /\ Head(addrs) \notin HasTo4 THEN TRUE
    ELSE isIPv6Loop(Tail(addrs))

\* a variant of isIPv6 without the To4 test
isIPv6NoTo4(addrs) == \E k \in 1..Len(addrs) : addrs[k] \in ParsesAsIP

\* a variant of isIPv6 that lets an IPv4 address decide for IPv4
isIPv6UnlessV4(addrs) ==
    isIPv6Loop(addrs) /\ \A k \in 1..Len(addrs) : addrs[k] \notin HasTo4

\* a variant of isIPv6 that takes what does not parse for IPv6
isIPv6Unparsed(addrs) == \E k \in 1..Len(addrs) : addrs[k] \notin HasTo4

\* func isIPv6(addrs ...string) bool
isIPv6(addrs) == isIPv6Loop(addrs)

\* the steps of NewInput that can fail, in the order of the source
StepOrder == <<"bootstrapToken", "certificateKey", "encryptionSecret",
               "trustdToken", "etcdCA", "k8sCA", "osCA", "adminIdentity">>
NumSteps == Len(StepOrder)
Steps == {StepOrder[k] : k \in 1..NumSteps}

\* the places where a step returns an error
FailPoints(st) ==
    IF st = "adminIdentity"
    THEN {"x509.NewKey", "failed to decode admin key pem",
          "ParseECPrivateKey(admin)", "x509.NewCertificateSigningRequest",
          "failed to decode csr pem", "ParseCertificateRequest",
          "failed to decode ca cert pem", "ParseCertificate",
          "failed to decode ca key pem", "ParseECPrivateKey(ca)",
          "x509.NewCertificateFromCSR"}
    ELSE {st}

NoVals == [st \in Steps |-> ""]
NoStepErr == [step |-> "", why |-> ""]
\* what a step that succeeded hands back
Artifact(st) == st \o "-value"

NilNewInput ==
    [isNil |-> TRUE, MasterIPs |-> <<>>, PodNet |-> <<>>, ServiceNet |-> <<>>,
     Certs |-> [Admin |-> "", Etcd |-> "", K8s |-> "", OS |-> ""],
     KubeadmTokens |-> [BootstrapToken |-> "", AESCBCEncryptionSecret |-> "",
                        CertificateKey |-> ""],
     TrustdInfo |-> [Token |-> ""]]

InitNewInput ==
    /\ masterIPs \in SeqsUpTo(MasterArgs, MaxMasters)
    /\ nipc = "begin"
    /\ step = 0
    /\ loopbackIP = ""
    /\ podNet = ""
    /\ serviceNet = ""
    /\ ran = <<>>
    /\ vals = NoVals
    /\ niInput = NilNewInput
    /\ niErr = NoStepErr

IdleNewInput ==
    /\ masterIPs = <<>>
    /\ nipc = "idle"
    /\ step = 0
    /\ loopbackIP = ""
    /\ podNet = ""
    /\ serviceNet = ""
    /\ ran = <<>>
    /\ vals = NoVals
    /\ niInput = NilNewInput
    /\ niErr = NoStepErr

\* if isIPv6(masterIPs...) { ... } else { ... }
SelectDefaults ==
    /\ nipc = "begin"
    /\ IF isIPv6(masterIPs)
       THEN /\ loopbackIP' = "::1"
            /\ podNet' = DefaultIPv6PodNet
            /\ serviceNet' = DefaultIPv6ServiceNet
       ELSE /\ loopbackIP' = "127.0.0.1"
            /\ podNet' = DefaultIPv4PodNet
            /\ serviceNet' = DefaultIPv4ServiceNet
    /\ nipc' = "step"
    /\ step' = 1
    /\ UNCHANGED <<masterIPs, ran, vals, niInput, niErr>>
    /\ UNCHANGED notNewInput

\* a step returns its value: NewInput goes on to the next one
StepOk ==
    /\ nipc = "step"
    /\ step <= NumSteps
    /\ ran' = Append(ran, StepOrder[step])
    /\ vals' = [vals EXCEPT ![StepOrder[step]] = Artifact(StepOrder[step])]
    /\ step' = step + 1
    /\ UNCHANGED <<masterIPs, nipc, loopbackIP, podNet, serviceNet, niInput, niErr>>
    /\ UNCHANGED notNewInput

\* a variant of StepFail that drops the error and goes on
StepFailIgnored(why) ==
    /\ nipc = "step"
    /\ step <= NumSteps
    /\ why \in FailPoints(StepOrder[step])
    /\ ran' = Append(ran, StepOrder[step])
    /\ step' = step + 1
    /\ UNCHANGED <<masterIPs, nipc, loopbackIP, podNet, serviceNet, vals,
                   niInput, niErr>>
    /\ UNCHANGED notNewInput

\* a step returns an error: return nil, err
StepFail(why) ==
    /\ nipc = "step"
    /\ step <= NumSteps
    /\ why \in FailPoints(StepOrder[step])
    /\ ran' = Append(ran, StepOrder[step])
    /\ niErr' = [step |-> StepOrder[step], why |-> why]
    /\ niInput' = NilNewInput
    /\ nipc' = "failed"
    /\ UNCHANGED <<masterIPs, step, loopbackIP, podNet, serviceNet, vals>>
    /\ UNCHANGED notNewInput

\* certs := &Certs{...}; input = &Input{...}; return input, nil
Assemble ==
    /\ nipc = "step"
    /\ step = NumSteps + 1
    /\ niInput' = [isNil |-> FALSE,
                   MasterIPs |-> masterIPs,
                   PodNet |-> <<podNet>>,
                   ServiceNet |-> <<serviceNet>>,
                   Certs |-> [Admin |-> vals["adminIdentity"],
                              Etcd |-> vals["etcdCA"],
                              K8s |-> vals["k8sCA"],
                              OS |-> vals["osCA"]],
                   KubeadmTokens |->
                       [BootstrapToken |-> vals["bootstrapToken"],
                        AESCBCEncryptionSecret |-> vals["encryptionSecret"],
                        CertificateKey |-> vals["certificateKey"]],
                   TrustdInfo |-> [Token |-> vals["trustdToken"]]]
    /\ niErr' = NoStepErr
    /\ nipc' = "done"
    /\ UNCHANGED <<masterIPs, step, loopbackIP, podNet, serviceNet, ran, vals>>
    /\ UNCHANGED notNewInput

AllFailPoints == UNION {FailPoints(st) : st \in Steps}

NextNewInput ==
    \/ SelectDefaults
    \/ StepOk
    \/ \E why \in AllFailPoints : StepFail(why)
    \/ Assemble

(***************************************************************************)
(* package generate: randBytes, genToken, generateCertificateKey.  A       *)
(* string is a sequence of one-character strings.  The entropy source      *)
(* hands out the bytes of pattern in turn, again and again, and any read   *)
(* of it may fail.                                                         *)
(***************************************************************************)
validBootstrapTokenChars ==
    <<"0", "1", "2", "3", "4", "5", "6", "7", "8", "9",
      "a", "b", "c", "d", "e", "f", "g", "h", "i", "j",
      "k", "l", "m", "n", "o", "p", "q", "r", "s", "t",
      "u", "v", "w", "x", "y", "z">>
maxByteValue == 252
ByteRange == 256
\* the arguments of the genToken calls and of generateCertificateKey's
\* randBytes call
TokenLenFirst == 6
TokenLenSecond == 16
CertificateKeyLen == 32

Bytes == 0..(ByteRange - 1)
\* bytes around the edges of the alphabet and of the cutoff
SampleBytes == {0, 35, 36, 251, 252, 255}
Streams == {<<x>> : x \in Bytes} \cup {<<x, y>> : x \in SampleBytes, y \in SampleBytes}

NilErr == "nil"
ErrEntropy == "entropy source error"
NoReturn == [val |-> <<>>, err |-> "none"]

Calls ==
    {[fn |-> "randBytes", first |-> n, second |-> 0] : n \in 0..MaxLen}
    \cup {[fn |-> "genToken", first |-> TokenLenFirst, second |-> TokenLenSecond],
          [fn |-> "generateCertificateKey", first |-> CertificateKeyLen, second |-> 0]}

\* []byte(key): the ASCII codes of the characters of key
StringBytes(key) ==
    [k \in 1..Len(key) |->
        LET j == CHOOSE j \in 1..Len(validBootstrapTokenChars) :
                     validBootstrapTokenChars[j] = key[k]
        IN IF j <= 10 THEN 47 + j ELSE 86 + j]

\* hex.EncodeToString(sha256.Sum256(bytes)): a value that stands for the
\* digest of bytes
Sha256Hex(bytes) == <<"sha256hex">> \o bytes

\* a variant of Accepted that keeps every byte
AcceptedAll(x) == x < ByteRange

\* b < maxByteValue
Accepted(x) == x < maxByteValue

\* validBootstrapTokenChars[int(b)%len(validBootstrapTokenChars)]
Symbol(x) == validBootstrapTokenChars[(x % Len(validBootstrapTokenChars)) + 1]

InitToken ==
    /\ pattern \in Streams
    /\ phase = 1
    /\ call \in Calls
    /\ tpc = "call"
    /\ part = 0
    /\ length = 0
    /\ token = <<>>
    /\ b = 0
    /\ rbRet = NoReturn
    /\ tokenTemp = <<<<>>, <<>>>>
    /\ ret = NoReturn

IdleToken ==
    /\ pattern = <<0>>
    /\ phase = 1
    /\ call = [fn |-> "none", first |-> 0, second |-> 0]
    /\ tpc = "idle"
    /\ part = 0
    /\ length = 0
    /\ token = <<>>
    /\ b = 0
    /\ rbRet = NoReturn
    /\ tokenTemp = <<<<>>, <<>>>>
    /\ ret = NoReturn

\* randBytes(length): token = make([]byte, length); for i := range token
CallRandBytes ==
    /\ tpc = "call"
    /\ length' = (IF part = 0 THEN call.first ELSE call.second)
    /\ token' = <<>>
    /\ tpc' = (IF length' = 0 THEN "ret" ELSE "read")
    /\ UNCHANGED <<pattern, phase, call, part, b, rbRet, tokenTemp, ret>>
    /\ UNCHANGED notToken

\* b, err = reader.ReadByte() with err == nil
ReadByte ==
    /\ tpc = "read"
    /\ b' = pattern[phase]
    /\ phase' = (phase % Len(pattern)) + 1
    /\ tpc' = "test"
    /\ UNCHANGED <<pattern, call, part, length, token, rbRet, tokenTemp, ret>>
    /\ UNCHANGED notToken

\* a variant of ReadErr that returns what the token holds so far
ReadErrPartial ==
    /\ tpc = "read"
    /\ rbRet' = [val |-> token, err |-> ErrEntropy]
    /\ tpc' = "after"
    /\ UNCHANGED <<pattern, phase, call, part, length, token, b, tokenTemp, ret>>
    /\ UNCHANGED notToken

\* b, err = reader.ReadByte() with err != nil: return "", err
ReadErr ==
    /\ tpc = "read"
    /\ rbRet' = [val |-> <<>>, err |-> ErrEntropy]
    /\ tpc' = "after"
    /\ UNCHANGED <<pattern, phase, call, part, length, token, b, tokenTemp, ret>>
    /\ UNCHANGED notToken

\* b >= maxByteValue: the inner loop reads again
Discard ==
    /\ tpc = "test"
    /\ ~Accepted(b)
    /\ tpc' = "read"
    /\ UNCHANGED <<pattern, phase, call, part, length, token, b, rbRet,
                   tokenTemp, ret>>
    /\ UNCHANGED notToken

\* a variant of Store that leaves the outer loop one character early
StoreShort ==
    /\ tpc = "test"
    /\ Accepted(b)
    /\ token' = Append(token, Symbol(b))
    /\ tpc' = (IF Len(token') >= length - 1 THEN "ret" ELSE "read")
    /\ UNCHANGED <<pattern, phase, call, part, length, b, rbRet, tokenTemp, ret>>
    /\ UNCHANGED notToken

\* b < maxByteValue: break; token[i] = validBootstrapTokenChars[...]
Store ==
    /\ tpc = "test"
    /\ Accepted(b)
    /\ token' = Append(token, Symbol(b))
    /\ tpc' = (IF Len(token') = length THEN "ret" ELSE "read")
    /\ UNCHANGED <<pattern, phase, call, part, length, b, rbRet, tokenTemp, ret>>
    /\ UNCHANGED notToken

\* return string(token), err
RandBytesReturn ==
    /\ tpc = "ret"
    /\ rbRet' = [val |-> token, err |-> NilErr]
    /\ tpc' = "after"
    /\ UNCHANGED <<pattern, phase, call, part, length, token, b, tokenTemp, ret>>
    /\ UNCHANGED notToken

\* randBytes was the function called
RandBytesDone ==
    /\ tpc = "after"
    /\ call.fn = "randBytes"
    /\ ret' = rbRet
    /\ tpc' = "done"
    /\ UNCHANGED <<pattern, phase, call, part, length, token, b, rbRet, tokenTemp>>
    /\ UNCHANGED notToken

\* genToken: tokenTemp[0], err = randBytes(lenFirst)
GenTokenFirst ==
    /\ tpc = "after"
    /\ call.fn = "genToken"
    /\ part = 0
    /\ IF rbRet.err # NilErr
       THEN /\ ret' = [val |-> <<>>, err |-> rbRet.err]
            /\ tpc' = "done"
            /\ UNCHANGED <<part, tokenTemp>>
       ELSE /\ tokenTemp' = [tokenTemp EXCEPT ![1] = rbRet.val]
            /\ part' = 1
            /\ tpc' = "call"
            /\ UNCHANGED ret
    /\ UNCHANGED <<pattern, phase, call, length, token, b, rbRet>>
    /\ UNCHANGED notToken

\* genToken: tokenTemp[1], err = randBytes(lenSecond), and the return
GenTokenSecond ==
    /\ tpc = "after"
    /\ call.fn = "genToken"
    /\ part = 1
    /\ IF rbRet.err # NilErr
       THEN /\ ret' = [val |-> <<>>, err |-> rbRet.err]
            /\ UNCHANGED tokenTemp
       ELSE /\ tokenTemp' = [tokenTemp EXCEPT ![2] = rbRet.val]
            /\ ret' = [val |-> tokenTemp'[1] \o <<".">> \o tokenTemp'[2],
                       err |-> NilErr]
    /\ tpc' = "done"
    /\ UNCHANGED <<pattern, phase, call, part, length, token, b, rbRet>>
    /\ UNCHANGED notToken

\* generateCertificateKey after key, err := randBytes(32)
CertificateKey ==
    /\ tpc = "after"
    /\ call.fn = "generateCertificateKey"
    /\ IF rbRet.err # NilErr
       THEN ret' = [val |-> <<>>, err |-> rbRet.err]
       ELSE ret' = [val |-> Sha256Hex(StringBytes(rbRet.val)), err |-> NilErr]
    /\ tpc' = "done"
    /\ UNCHANGED <<pattern, phase, call, part, length, token, b, rbRet, tokenTemp>>
    /\ UNCHANGED notToken

NextToken ==
    \/ CallRandBytes
    \/ ReadByte
    \/ ReadErr
    \/ Discard
    \/ Store
    \/ RandBytesReturn
    \/ RandBytesDone
    \/ GenTokenFirst
    \/ GenTokenSecond
    \/ CertificateKey

(***************************************************************************)
(* package cis: WriteAuditPolicyToDisk, WriteEncryptionConfigToDisk and    *)
(* EnforceCommonMasterRequirements over the two files they write.          *)
(***************************************************************************)
auditPolicy == "apiVersion: audit.k8s.io/v1beta1 ..."
\* the template encryptionConfig executed with the secret
encryptionConfig(secret) == "kind: EncryptionConfig ... secret: " \o secret
CisSecrets == {"secret-1", "secret-2"}
Modes == {"0400", "0644"}
NoFile == [exists |-> FALSE, content |-> "", mode |-> ""]
\* the files a call can find: none, or one left by something else
FoundFiles == {NoFile} \cup {[exists |-> TRUE, content |-> "other", mode |-> m] : m \in Modes}
\* how a write of a file can end
WriteOutcomes == {"ok", "open fails", "write fails"}
\* how os.Stat can end other than by the state of the file
StatOutcomes == {"ok", "error"}

\* ioutil.WriteFile(path, data, perm): open with O_WRONLY|O_CREATE|O_TRUNC,
\* write, close
WriteFile(f, data, perm, out) ==
    IF f.exists /\ f.mode = "0400" /\ ~isRoot
    THEN [file |-> f, err |-> "permission denied", wrote |-> FALSE]
    ELSE IF out = "open fails"
    THEN [file |-> f, err |-> "input/output error", wrote |-> FALSE]
    ELSE LET mode == IF f.exists THEN f.mode ELSE perm
         IN IF out = "write fails"
            THEN [file |-> [exists |-> TRUE, content |-> "", mode |-> mode],
                  err |-> "input/output error", wrote |-> FALSE]
            ELSE [file |-> [exists |-> TRUE, content |-> data, mode |-> mode],
                  err |-> "nil", wrote |-> TRUE]

\* what WriteAuditPolicyToDisk does and returns
AuditPolicyToDisk(out) == WriteFile(auditFile, auditPolicy, "0400", out)

\* what WriteEncryptionConfigToDisk does and returns
EncryptionConfigToDisk(secret, stat, out) ==
    IF stat = "ok" /\ ~encFile.exists
    THEN WriteFile(encFile, encryptionConfig(secret), "0400", out)
    ELSE [file |-> encFile, err |-> "nil", wrote |-> FALSE]

InitCis ==
    /\ auditFile \in FoundFiles
    /\ encFile \in FoundFiles
    /\ isRoot \in BOOLEAN
    /\ cisOp = "none"
    /\ cisErr = "none"
    /\ cisCalls = 0
    /\ enforced = FALSE
    /\ auditWrites = 0

IdleCis ==
    /\ auditFile = NoFile
    /\ encFile = NoFile
    /\ isRoot = FALSE
    /\ cisOp = "idle"
    /\ cisErr = "idle"
    /\ cisCalls = 0
    /\ enforced = FALSE
    /\ auditWrites = 0

\* func WriteAuditPolicyToDisk() (err error)
WriteAuditPolicyToDisk(out) ==
    /\ cisOp # "idle"
    /\ cisOp' = "WriteAuditPolicyToDisk"
    /\ cisCalls < MaxCalls
    /\ cisCalls' = cisCalls + 1
    /\ auditFile' = AuditPolicyToDisk(out).file
    /\ cisErr' = AuditPolicyToDisk(out).err
    /\ auditWrites' = auditWrites + (IF AuditPolicyToDisk(out).wrote THEN 1 ELSE 0)
    /\ UNCHANGED <<encFile, isRoot, enforced>>
    /\ UNCHANGED notCis

\* func WriteEncryptionConfigToDisk(aescbcEncryptionSecret string) error
WriteEncryptionConfigToDisk(secret, stat, out) ==
    /\ cisOp # "idle"
    /\ cisOp' = "WriteEncryptionConfigToDisk"
    /\ cisCalls < MaxCalls
    /\ cisCalls' = cisCalls + 1
    /\ encFile' = EncryptionConfigToDisk(secret, stat, out).file
    /\ cisErr' = EncryptionConfigToDisk(secret, stat, out).err
    /\ UNCHANGED <<auditFile, isRoot, enforced, auditWrites>>
    /\ UNCHANGED notCis

\* func EnforceCommonMasterRequirements(aescbcEncryptionSecret string) (err error)
EnforceCommonMasterRequirements(secret, out1, stat, out2) ==
    /\ cisOp # "idle"
    /\ cisOp' = "EnforceCommonMasterRequirements"
    /\ cisCalls < MaxCalls
    /\ cisCalls' = cisCalls + 1
    /\ auditFile' = AuditPolicyToDisk(out1).file
    /\ auditWrites' = auditWrites + (IF AuditPolicyToDisk(out1).wrote THEN 1 ELSE 0)
    /\ IF AuditPolicyToDisk(out1).err # "nil"
       THEN /\ cisErr' = AuditPolicyToDisk(out1).err
            /\ UNCHANGED encFile
       ELSE /\ encFile' = EncryptionConfigToDisk(secret, stat, out2).file
            /\ cisErr' = EncryptionConfigToDisk(secret, stat, out2).err
    /\ enforced' = (enforced \/ cisErr' = "nil")
    /\ UNCHANGED isRoot
    /\ UNCHANGED notCis

NextCis ==
    \/ \E out \in WriteOutcomes : WriteAuditPolicyToDisk(out)
    \/ \E secret \in CisSecrets, stat \in StatOutcomes, out \in WriteOutcomes :
           WriteEncryptionConfigToDisk(secret, stat, out)
    \/ \E secret \in CisSecrets, out1 \in WriteOutcomes, stat \in StatOutcomes,
          out2 \in WriteOutcomes :
           EnforceCommonMasterRequirements(secret, out1, stat, out2)

(***************************************************************************)
(* package file: File.Read.  The reader goroutine, the file it reads, the  *)
(* watcher of its directory, the consumer of the channel and the context.  *)
(***************************************************************************)
filename == "dir/file"
EvWrite == [name |-> filename, op |-> "Write"]
EvRemove == [name |-> filename, op |-> "Remove"]
\* events the reader has no use for
OtherEvents == {[name |-> filename, op |-> "Chmod"],
                [name |-> "dir/other", op |-> "Write"]}
NoChunk == [from |-> 0, to |-> 0]
Min(x, y) == IF x <= y THEN x ELSE y

InitChunker ==
    /\ size \in 1..MaxSize
    /\ fileLen \in 0..MaxFile
    /\ removed = FALSE
    /\ events = <<>>
    /\ injected = 0
    /\ cancelled = FALSE
    /\ cpc = "start"
    /\ offset = 0
    /\ nread = 0
    /\ eof = FALSE
    /\ chunk = NoChunk
    /\ chBuf = <<>>
    /\ sent = <<>>
    /\ closes = 0
    /\ exitWhy = "running"

IdleChunker ==
    /\ size = 1
    /\ fileLen = 0
    /\ removed = FALSE
    /\ events = <<>>
    /\ injected = 0
    /\ cancelled = FALSE
    /\ cpc = "idle"
    /\ offset = 0
    /\ nread = 0
    /\ eof = FALSE
    /\ chunk = NoChunk
    /\ chBuf = <<>>
    /\ sent = <<>>
    /\ closes = 0
    /\ exitWhy = "idle"

\* return, with the deferred watcher.Close() and close(ch)
ReaderReturns(reason) ==
    /\ cpc' = "closed"
    /\ closes' = closes + 1
    /\ exitWhy' = reason

\* ---- the environment ----

\* a writer appends a byte to the file; the directory watch queues a Write
\* event, which the kernel merges with an identical event at the tail
AppendFile ==
    /\ cpc \notin {"idle", "start"}    \* the directory is watched
    /\ ~removed
    /\ fileLen < MaxFile
    /\ fileLen' = fileLen + 1
    /\ \/ /\ Len(events) < MaxEvents
          /\ events' = Append(events, EvWrite)
       \/ /\ Len(events) > 0
          /\ events[Len(events)] = EvWrite
          /\ events' = events
    /\ UNCHANGED <<size, removed, injected, cancelled, cpc, offset, nread, eof, chunk,
                   chBuf, sent, closes, exitWhy>>
    /\ UNCHANGED notChunker

\* the file is removed from the directory
RemoveFile ==
    /\ cpc \notin {"idle", "start"}    \* the directory is watched
    /\ ~removed
    /\ Len(events) < MaxEvents
    /\ removed' = TRUE
    /\ events' = Append(events, EvRemove)
    /\ UNCHANGED <<size, fileLen, injected, cancelled, cpc, offset, nread, eof, chunk,
                   chBuf, sent, closes, exitWhy>>
    /\ UNCHANGED notChunker

\* something else happens in the directory
OtherEvent(ev) ==
    /\ cpc \notin {"idle", "start"}    \* the directory is watched
    /\ injected < MaxInjected
    /\ Len(events) < MaxEvents
    /\ ev.name = filename => ~removed
    /\ injected' = injected + 1
    /\ events' = Append(events, ev)
    /\ UNCHANGED <<size, fileLen, removed, cancelled, cpc, offset, nread, eof, chunk,
                   chBuf, sent, closes, exitWhy>>
    /\ UNCHANGED notChunker

\* the context is cancelled
CancelContext ==
    /\ cpc \notin {"idle"}
    /\ ~cancelled
    /\ cancelled' = TRUE
    /\ UNCHANGED <<size, fileLen, removed, events, injected, cpc, offset, nread, eof,
                   chunk, chBuf, sent, closes, exitWhy>>
    /\ UNCHANGED notChunker

\* the consumer receives a chunk from ch
Receive ==
    /\ Len(chBuf) > 0
    /\ chBuf' = Tail(chBuf)
    /\ UNCHANGED <<size, fileLen, removed, events, injected, cancelled, cpc, offset,
                   nread, eof, chunk, sent, closes, exitWhy>>
    /\ UNCHANGED notChunker

\* ---- the reader goroutine ----

\* fsnotify.NewWatcher, watcher.Add and c.source.Seek succeed
Setup ==
    /\ cpc = "start"
    /\ offset' = 0
    /\ cpc' = "read"
    /\ UNCHANGED <<size, fileLen, removed, events, injected, cancelled, nread, eof,
                   chunk, chBuf, sent, closes, exitWhy>>
    /\ UNCHANGED notChunker

\* one of them fails: log and return
SetupError ==
    /\ cpc = "start"
    /\ ReaderReturns("setup error")
    /\ UNCHANGED <<size, fileLen, removed, events, injected, cancelled, offset, nread,
                   eof, chunk, chBuf, sent>>
    /\ UNCHANGED notChunker

\* a variant of ReadAt that does not advance the offset
ReadAtNoAdvance ==
    /\ cpc = "read"
    /\ nread' = Min(size, fileLen - offset)
    /\ eof' = (nread' < size)
    /\ offset' = offset
    /\ IF nread' > 0
       THEN /\ chunk' = [from |-> offset, to |-> offset + nread']
            /\ cpc' = "deliver"
       ELSE /\ chunk' = chunk
            /\ cpc' = "watch"
    /\ UNCHANGED <<size, fileLen, removed, events, injected, cancelled, chBuf,
                   sent, closes, exitWhy>>
    /\ UNCHANGED notChunker

\* n, err := c.source.ReadAt(buf, offset) with err nil or io.EOF;
\* offset += int64(n); a chunk to deliver if n > 0, else break
ReadAt ==
    /\ cpc = "read"
    /\ nread' = Min(size, fileLen - offset)
    /\ eof' = (nread' < size)
    /\ offset' = offset + nread'
    /\ IF nread' > 0
       THEN /\ chunk' = [from |-> offset, to |-> offset']
            /\ cpc' = "deliver"
       ELSE /\ chunk' = chunk
            /\ cpc' = "watch"
    /\ UNCHANGED <<size, fileLen, removed, events, injected, cancelled, chBuf,
                   sent, closes, exitWhy>>
    /\ UNCHANGED notChunker

\* ReadAt fails with another error: log and return
ReadError ==
    /\ cpc = "read"
    /\ ReaderReturns("read error")
    /\ UNCHANGED <<size, fileLen, removed, events, injected, cancelled, offset, nread,
                   eof, chunk, chBuf, sent>>
    /\ UNCHANGED notChunker

\* a variant of DeliverCtxDone: DELIVER without the ctx.Done() case
DeliverCtxDoneMissing ==
    /\ cpc = "deliver"
    /\ cancelled
    /\ UNCHANGED chunkVars
    /\ UNCHANGED notChunker

\* DELIVER: case <-ctx.Done(): return
DeliverCtxDone ==
    /\ cpc = "deliver"
    /\ cancelled
    /\ ReaderReturns("cancelled")
    /\ UNCHANGED <<size, fileLen, removed, events, injected, cancelled, offset, nread,
                   eof, chunk, chBuf, sent>>
    /\ UNCHANGED notChunker

\* a variant of DeliverEvent that leaves the EOF condition as it is
DeliverEventKeepsEOF ==
    /\ cpc = "deliver"
    /\ Len(events) > 0
    /\ events' = Tail(events)
    /\ UNCHANGED <<size, fileLen, removed, injected, cancelled, cpc, offset, nread,
                   eof, chunk, chBuf, sent, closes, exitWhy>>
    /\ UNCHANGED notChunker

\* DELIVER: case event := <-watcher.Events: a Write of the file clears the
\* EOF condition; goto DELIVER
DeliverEvent ==
    /\ cpc = "deliver"
    /\ Len(events) > 0
    /\ events' = Tail(events)
    /\ eof' = (IF Head(events) = EvWrite THEN FALSE ELSE eof)
    /\ UNCHANGED <<size, fileLen, removed, injected, cancelled, cpc, offset, nread,
                   chunk, chBuf, sent, closes, exitWhy>>
    /\ UNCHANGED notChunker

\* DELIVER: case ch <- b; then break if err == io.EOF || n == 0
DeliverSend ==
    /\ cpc = "deliver"
    /\ Len(chBuf) < 1
    /\ chBuf' = Append(chBuf, chunk)
    /\ sent' = Append(sent, chunk)
    /\ cpc' = (IF eof \/ nread = 0 THEN "watch" ELSE "read")
    /\ UNCHANGED <<size, fileLen, removed, events, injected, cancelled, offset, nread,
                   eof, chunk, closes, exitWhy>>
    /\ UNCHANGED notChunker

\* WATCH: case <-ctx.Done(): return
WatchCtxDone ==
    /\ cpc = "watch"
    /\ cancelled
    /\ ReaderReturns("cancelled")
    /\ UNCHANGED <<size, fileLen, removed, events, injected, cancelled, offset, nread,
                   eof, chunk, chBuf, sent>>
    /\ UNCHANGED notChunker

\* WATCH: case event := <-watcher.Events
WatchEvent ==
    /\ cpc = "watch"
    /\ Len(events) > 0
    /\ events' = Tail(events)
    /\ IF Head(events).name # filename
       THEN UNCHANGED <<cpc, closes, exitWhy>>
       ELSE IF Head(events).op = "Write"
       THEN cpc' = "read" /\ UNCHANGED <<closes, exitWhy>>
       ELSE IF Head(events).op = "Remove"
       THEN ReaderReturns("removed")
       ELSE UNCHANGED <<cpc, closes, exitWhy>>
    /\ UNCHANGED <<size, fileLen, removed, injected, cancelled, offset, nread, eof,
                   chunk, chBuf, sent>>
    /\ UNCHANGED notChunker

\* WATCH: case err := <-watcher.Errors: log and return
WatchError ==
    /\ cpc = "watch"
    /\ ReaderReturns("watch error")
    /\ UNCHANGED <<size, fileLen, removed, events, injected, cancelled, offset, nread,
                   eof, chunk, chBuf, sent>>
    /\ UNCHANGED notChunker

NextChunker ==
    \/ AppendFile
    \/ RemoveFile
    \/ \E ev \in OtherEvents : OtherEvent(ev)
    \/ CancelContext
    \/ Receive
    \/ Setup
    \/ SetupError
    \/ ReadAt
    \/ ReadError
    \/ DeliverCtxDone
    \/ DeliverEvent
    \/ DeliverSend
    \/ WatchCtxDone
    \/ WatchEvent
    \/ WatchError

\* the goroutine runs when it can, and select takes every ready case in the end
ReaderFairness ==
    /\ WF_vars(Setup)
    /\ WF_vars(ReadAt)
    /\ WF_vars(DeliverCtxDone)
    /\ WF_vars(DeliverEvent)
    /\ WF_vars(DeliverSend)
    /\ WF_vars(WatchCtxDone)
    /\ WF_vars(WatchEvent)

(***************************************************************************)
(* Package archiver: Walker sends the items of a file tree on a channel.   *)
(***************************************************************************)
\* the deepest path of the file trees
MaxTreeDepth == 2
\* the largest WithMaxRecurseDepth argument
MaxRecurse == 1

\* const OSPathSeparator = string(os.PathSeparator)
OSPathSeparator == "/"

\* the root paths Walker is called with: "d", "." and "/"
RootPaths == {<<"d">>, <<".">>, <<"/">>}

\* the paths below the root, as the names from the root down: a directory
\* holds at most "a", which may be a directory, and "b", which is a file
RECURSIVE Nodes(_)
Nodes(depth) ==
    IF depth = 0
    THEN {<<>>}
    ELSE LET above == Nodes(depth - 1)
             dirs == {n \in above : \A k \in 1..Len(n) : n[k] = "a"}
         IN  above \cup {Append(n, c) : n \in {m \in dirs : Len(m) = depth - 1},
                                        c \in {"a", "b"}}

AllNodes == Nodes(MaxTreeDepth)

Parent(n) == SubSeq(n, 1, Len(n) - 1)

\* the file trees: what is not the root lies in a directory
Trees ==
    {t \in [AllNodes -> {"none", "file", "dir", "unreadable"}] :
        \A n \in AllNodes \ {<<>>} :
            /\ t[n] # "none" => t[Parent(n)] = "dir"
            /\ n[Len(n)] = "b" => t[n] \in {"none", "file"}}

NoItem == [FullPath |-> <<>>, node |-> <<>>, IsDir |-> FALSE, Error |-> "none"]

\* strings.Count(s, OSPathSeparator)
stringsCount(s) == Cardinality({k \in 1..Len(s) : s[k] = OSPathSeparator})

RECURSIVE WithSeparators(_)
WithSeparators(elems) ==
    IF Len(elems) = 0 THEN <<>>
    ELSE IF Len(elems) = 1 THEN <<elems[1]>>
    ELSE <<elems[1], OSPathSeparator>> \o WithSeparators(Tail(elems))

\* filepath.Clean for the paths of one-character names without "..":
\* separators are not repeated, "." elements and a trailing separator go
filepathClean(p) ==
    LET elems == SelectSeq(p, LAMBDA c : c \notin {OSPathSeparator, "."})
    IN  IF Len(p) > 0 /\ p[1] = OSPathSeparator
        THEN <<OSPathSeparator>> \o WithSeparators(elems)
        ELSE IF elems = <<>> THEN <<".">> ELSE WithSeparators(elems)

\* filepath.Join(dir, name), as filepath.Walk builds the path of an entry
filepathJoin(dir, name) == filepathClean(dir \o <<OSPathSeparator, name>>)

\* the path filepath.Walk hands to the callback: the root as it was given,
\* the others joined to the path of their directory
RECURSIVE FullPath(_)
FullPath(n) ==
    IF n = <<>> THEN rootPath
    ELSE filepathJoin(FullPath(Parent(n)), n[Len(n)])

\* the sorted entries of a directory
Children(n) ==
    IF Len(n) >= MaxTreeDepth THEN <<>>
    ELSE SelectSeq(<<Append(n, "a"), Append(n, "b")>>,
                   LAMBDA m : tree[m] # "none")

\* func atMaxDepth(max int, root, cur string) bool
atMaxDepth(max, root, cur) ==
    IF max < 0 THEN FALSE
    ELSE IF root = cur THEN FALSE
    ELSE (stringsCount(cur) - stringsCount(root)) >= max

InitWalker ==
    /\ rootPath \in RootPaths
    /\ tree \in Trees
    /\ maxRecurseDepth \in -1..MaxRecurse
    /\ skipRoot \in BOOLEAN
    /\ wpc = "call"
    /\ todo = <<>>
    /\ wItem = NoItem
    /\ wSent = <<>>
    /\ wCancelled = FALSE
    /\ receiving = TRUE
    /\ walkRet = "none"
    /\ wCloses = 0
    /\ started = FALSE
    /\ wErr = "none"

IdleWalker ==
    /\ rootPath = <<".">>
    /\ tree = [n \in AllNodes |-> "none"]
    /\ maxRecurseDepth = -1
    /\ skipRoot = FALSE
    /\ wpc = "idle"
    /\ todo = <<>>
    /\ wItem = NoItem
    /\ wSent = <<>>
    /\ wCancelled = FALSE
    /\ receiving = TRUE
    /\ walkRet = "none"
    /\ wCloses = 0
    /\ started = FALSE
    /\ wErr = "none"

\* Walker up to its return: os.Stat(rootPath), then the channel and the
\* goroutine, which starts with filepath.Walk at the root
Walker ==
    /\ wpc = "call"
    /\ IF tree[<<>>] = "none"
       THEN /\ wErr' = "stat error"
            /\ wpc' = "failed"
            /\ UNCHANGED <<started, todo, receiving>>
       ELSE /\ wErr' = "nil"
            /\ started' = TRUE
            /\ todo' = << <<>> >>
            /\ wpc' = "walk"
    /\ UNCHANGED <<rootPath, tree, maxRecurseDepth, skipRoot, wItem, wSent,
                   wCancelled, walkRet, wCloses, receiving>>
    /\ UNCHANGED notWalker

\* the context is cancelled; the goroutine looks at ctx in its selects only,
\* so a cancellation is taken at the select that first sees it
WalkerCancel ==
    /\ wpc = "select"
    /\ ~wCancelled
    /\ wCancelled' = TRUE
    /\ UNCHANGED <<rootPath, tree, maxRecurseDepth, skipRoot, wpc, todo, wItem,
                   wSent, walkRet, wCloses, started, wErr,
                   receiving>>
    /\ UNCHANGED notWalker

\* the consumer stops receiving, which shows at the next send
ConsumerStops ==
    /\ wpc = "select"
    /\ receiving
    /\ receiving' = FALSE
    /\ UNCHANGED <<rootPath, tree, maxRecurseDepth, skipRoot, wpc, todo, wItem,
                   wSent, wCancelled, walkRet, wCloses, started,
                   wErr>>
    /\ UNCHANGED notWalker

\* the callback at the root directory with skipRoot: return nil, and
\* filepath.Walk goes on with the entries of the root
SkipRootDir ==
    /\ wpc = "walk"
    /\ todo # <<>>
    /\ FullPath(Head(todo)) = rootPath
    /\ skipRoot
    /\ tree[Head(todo)] = "dir"
    /\ todo' = Children(Head(todo)) \o Tail(todo)
    /\ UNCHANGED <<rootPath, tree, maxRecurseDepth, skipRoot, wpc, wItem,
                   wSent, wCancelled, walkRet, wCloses, started,
                   wErr, receiving>>
    /\ UNCHANGED notWalker

\* the callback up to its select: the item of the next path, with walkErr
\* for a path that filepath.Walk could not read
Callback ==
    /\ wpc = "walk"
    /\ todo # <<>>
    /\ ~(FullPath(Head(todo)) = rootPath /\ skipRoot /\ tree[Head(todo)] = "dir")
    /\ wItem' = [FullPath |-> FullPath(Head(todo)),
                 node |-> Head(todo),
                 IsDir |-> tree[Head(todo)] = "dir",
                 Error |-> IF tree[Head(todo)] = "unreadable"
                           THEN "walkErr" ELSE "nil"]
    /\ wpc' = "select"
    /\ UNCHANGED <<rootPath, tree, maxRecurseDepth, skipRoot, todo, wSent,
                   wCancelled, walkRet, wCloses, started, wErr, receiving>>
    /\ UNCHANGED notWalker

\* a variant of SelectCtxDone: the select without the ctx.Done() case
SelectCtxDoneMissing ==
    /\ wpc = "select"
    /\ wCancelled
    /\ UNCHANGED walkVars
    /\ UNCHANGED notWalker

\* case <-ctx.Done(): return ctx.Err(), which ends filepath.Walk
SelectCtxDone ==
    /\ wpc = "select"
    /\ wCancelled
    /\ walkRet' = "context canceled"
    /\ wpc' = "final"
    /\ UNCHANGED <<rootPath, tree, maxRecurseDepth, skipRoot, todo, wItem,
                   wSent, wCancelled, wCloses, started, wErr,
                   receiving>>
    /\ UNCHANGED notWalker

\* case ch <- item: the consumer receives the item; the callback returns
\* filepath.SkipDir or nil and filepath.Walk goes on: it lists a directory
\* that it read and that was not skipped
SelectSend ==
    /\ wpc = "select"
    /\ receiving
    /\ wSent' = Append(wSent, wItem)
    /\ todo' =
         IF wItem.Error = "nil" /\ wItem.IsDir
            /\ ~atMaxDepth(maxRecurseDepth, rootPath, wItem.FullPath)
         THEN Children(wItem.node) \o Tail(todo)
         ELSE Tail(todo)
    /\ wItem' = NoItem
    /\ wpc' = "walk"
    /\ UNCHANGED <<rootPath, tree, maxRecurseDepth, skipRoot, wCancelled,
                   walkRet, wCloses, started, wErr, receiving>>
    /\ UNCHANGED notWalker

\* filepath.Walk has no path left: it returns nil and the goroutine returns,
\* with the deferred close(ch)
WalkReturns ==
    /\ wpc = "walk"
    /\ todo = <<>>
    /\ walkRet' = "nil"
    /\ wCloses' = wCloses + 1
    /\ wpc' = "closed"
    /\ UNCHANGED <<rootPath, tree, maxRecurseDepth, skipRoot, todo, wItem,
                   wSent, wCancelled, started, wErr, receiving>>
    /\ UNCHANGED notWalker

\* if err != nil { select { case ch <- FileItem{Error: err}: } }, then the
\* deferred close(ch)
FinalSend ==
    /\ wpc = "final"
    /\ receiving
    /\ wSent' = Append(wSent, [NoItem EXCEPT !.Error = walkRet])
    /\ wCloses' = wCloses + 1
    /\ wpc' = "closed"
    /\ UNCHANGED <<rootPath, tree, maxRecurseDepth, skipRoot, todo, wItem,
                   wCancelled, walkRet, started, wErr,
                   receiving>>
    /\ UNCHANGED notWalker

\* if err != nil { select { case <-ctx.Done(): } }, then the deferred
\* close(ch)
FinalCtxDone ==
    /\ wpc = "final"
    /\ wCancelled
    /\ wCloses' = wCloses + 1
    /\ wpc' = "closed"
    /\ UNCHANGED <<rootPath, tree, maxRecurseDepth, skipRoot, todo, wItem,
                   wSent, wCancelled, walkRet, started, wErr,
                   receiving>>
    /\ UNCHANGED notWalker

NextWalker ==
    \/ Walker
    \/ WalkerCancel
    \/ ConsumerStops
    \/ SkipRootDir
    \/ Callback
    \/ SelectCtxDone
    \/ SelectSend
    \/ WalkReturns
    \/ FinalSend
    \/ FinalCtxDone

\* the goroutine runs when it can: a select with a ready case takes one
WalkerFairness ==
    WF_vars(\/ SkipRootDir
            \/ Callback
            \/ SelectCtxDone
            \/ SelectSend
            \/ WalkReturns
            \/ FinalSend
            \/ FinalCtxDone)

(***************************************************************************)
(* Specifications.                                                         *)
(***************************************************************************)
InitSpecRemote == InitRemote /\ IdleInput /\ IdleNewInput /\ IdleToken /\ IdleCis /\ IdleChunker /\ IdleWalker
InitSpecInput == InitInput /\ IdleRemote /\ IdleNewInput /\ IdleToken /\ IdleCis /\ IdleChunker /\ IdleWalker
InitSpecNewInput == InitNewInput /\ IdleRemote /\ IdleInput /\ IdleToken /\ IdleCis /\ IdleChunker /\ IdleWalker
InitSpecToken == InitToken /\ IdleRemote /\ IdleInput /\ IdleNewInput /\ IdleCis /\ IdleChunker /\ IdleWalker
InitSpecCis == InitCis /\ IdleRemote /\ IdleInput /\ IdleNewInput /\ IdleToken /\ IdleChunker /\ IdleWalker
InitSpecChunker == InitChunker /\ IdleRemote /\ IdleInput /\ IdleNewInput /\ IdleToken /\ IdleCis /\ IdleWalker
InitSpecWalker == InitWalker /\ IdleRemote /\ IdleInput /\ IdleNewInput /\ IdleToken /\ IdleCis /\ IdleChunker

\* one NewRemoteGenerator call followed by one Identity call
SpecRemote == InitSpecRemote /\ [][NextRemote]_vars

\* accessor calls on one Input
SpecInput == InitSpecInput /\ [][NextInput]_vars

\* one NewInput call
SpecNewInput == InitSpecNewInput /\ [][NextNewInput]_vars

\* one call of randBytes, genToken or generateCertificateKey
SpecToken == InitSpecToken /\ [][NextToken]_vars

\* calls of the package cis functions on one machine
SpecCis == InitSpecCis /\ [][NextCis]_vars

\* one File.Read with a scheduled reader goroutine
SpecChunker == InitSpecChunker /\ [][NextChunker]_vars /\ ReaderFairness

\* the same with a consumer that keeps receiving
SpecChunkerLive ==
    InitSpecChunker /\ [][NextChunker]_vars /\ ReaderFairness /\ WF_vars(Receive)

\* one Walker call with its goroutine scheduled and a consumer that receives
\* until it stops
SpecWalker == InitSpecWalker /\ [][NextWalker]_vars /\ WalkerFairness

(***************************************************************************)
(* Properties of NewRemoteGenerator and of the polling loop (SpecRemote).  *)
(***************************************************************************)
\* the phases of Identity / poll
Polling == {"Polling", "InFlight"}

\* C1: endpoints are dialled one at a time in input order: the k-th dial is
\* of endpoints[k], every dial before the last one failed, and when a
\* generator is returned it is connected to the endpoint dialled last, whose
\* dial succeeded; nothing is dialled after a successful dial.
C1_SequentialFailover ==
    /\ \A j \in 1..Len(dialLog) :
          /\ j <= Len(endpoints)
          /\ dialLog[j].idx = j - 1
          /\ dialLog[j].ep = endpoints[j]
          /\ (j < Len(dialLog) => ~dialLog[j].ok)
    /\ pc = "Connected" =>
          /\ Len(dialLog) > 0
          /\ dialLog[Len(dialLog)].ok
          /\ g = dialLog[Len(dialLog)].ep
    /\ (pc = "Select" /\ Len(dialLog) > 0) => ~dialLog[Len(dialLog)].ok

\* the third endpoint is dialled after two failures and accepts
C1_Witness ==
    /\ pc = "Connected"
    /\ Len(dialLog) = 3
    /\ ~dialLog[1].ok /\ ~dialLog[2].ok
    /\ g = endpoints[3]

C3_PollFailureKeepsPolling ==
    [][ /\ (pc = "InFlight" /\ lastResp' = "err") => pc' = "Polling"
        /\ (pc \in Polling /\ pc' \notin Polling) =>
              \/ pc' = "Issued" /\ pc = "InFlight" /\ lastResp' = "ok"
              \/ pc' = "TimedOut" /\ pc = "Polling" /\ timeoutC
              \/ pc' = "Canceled" /\ cancelRequested
      ]_vars

\* MaxFailures polls in a row have failed and the loop is still polling
C3_Witness ==
    /\ pc = "Polling"
    /\ lastResp = "err"
    /\ failures = MaxFailures

\* C4: the call is Issued only with a CA and a certificate in hand.
C4_IssuedOnlyWithPair ==
    pc = "Issued" => (ca # NoBytes /\ crt # NoBytes)

\* C5: as long as no poll has produced a certificate, the call does not time
\* out before the deadline and is not still running once the deadline has
\* passed.
C5_TerminatesAtDeadline ==
    /\ pc = "TimedOut" => now >= PollTimeout
    /\ (now > PollTimeout /\ pc # "Issued") => pc = "TimedOut"

C7_CanceledWithinInterval ==
    cancelAge > PollInterval => pc = "Canceled"

\* C8: at most one Certificate request is in flight, and a request is sent
\* only when none is in flight and a tick has been taken from the ticker.
C8_OneRequestInFlight ==
    [][ /\ inflight' <= 1
        /\ inflight' > inflight =>
              /\ inflight = 0
              /\ tickC /\ ~tickC'
              /\ now >= PollInterval
      ]_vars

\* a second request is in flight after the first one returned
C8_Witness ==
    /\ inflight = 1
    /\ pc = "InFlight"
    /\ failures >= 1

C10_MissingTopologyIsError ==
    res.op \in {"Endpoints", "GetAPIServerEndpoint", "GetControlPlaneEndpoint"} =>
        /\ res.kind # "panic"
        /\ ~aborted

C12_ControlPlaneEndpointOrFirstMaster ==
    (res.op = "GetControlPlaneEndpoint" /\ ~input.isNil) =>
        /\ input.ControlPlaneEndpoint # "" =>
              res.kind = "value" /\ res.val = input.ControlPlaneEndpoint
        /\ (input.ControlPlaneEndpoint = "" /\ Len(input.MasterIPs) > 0) =>
              res.kind = "value" /\ res.val = FormatAddress(input.MasterIPs[1])

\* the explicit endpoint is returned although there is no master
C12_Witness ==
    /\ res.op = "GetControlPlaneEndpoint"
    /\ Len(input.MasterIPs) = 0
    /\ res.kind = "value"
    /\ res.val = "cp.example.com:443"

\* C13: GetAPIServerSANs returns 127.0.0.1, ::1, the masters in order, then
\* the additional names in order, duplicates kept, and leaves the Input as
\* it was.
C13_SANsInOrder ==
    [][ (res'.op = "GetAPIServerSANs" /\ res'.kind = "list") =>
          LET m == input.MasterIPs
              a == input.AdditionalSubjectAltNames
              l == res'.val
          IN /\ input' = input
             /\ Len(l) = 2 + Len(m) + Len(a)
             /\ l[1] = "127.0.0.1" /\ l[2] = "::1"
             /\ \A k \in 1..Len(m) : l[2 + k] = m[k]
             /\ \A k \in 1..Len(a) : l[2 + Len(m) + k] = a[k]
      ]_vars

\* a master address is repeated among the additional names and kept twice
C13_Witness ==
    /\ res.op = "GetAPIServerSANs"
    /\ res.kind = "list"
    /\ input.MasterIPs = <<"10.0.0.1">>
    /\ input.AdditionalSubjectAltNames = <<"10.0.0.1">>
    /\ Len(res.val) = 4
\* C14: NewInput selects the IPv6 defaults (pod net, service net, loopback)
\* if and only if some master IP parses as an IP address with no IPv4
\* representation, the IPv4 defaults in every other case, and the Input it
\* returns carries the selected nets.
C14_IPv6DefaultsIffIPv6Master ==
    nipc \in {"step", "done", "failed"} =>
        LET v6 == \E k \in 1..Len(masterIPs) :
                      masterIPs[k] \in ParsesAsIP \ HasTo4
        IN /\ v6 => /\ podNet = "fc00:db8:10::/56"
                    /\ serviceNet = "fc00:db8:20::/112"
                    /\ loopbackIP = "::1"
           /\ ~v6 => /\ podNet = "10.244.0.0/16"
                     /\ serviceNet = "10.96.0.0/12"
                     /\ loopbackIP = "127.0.0.1"
           /\ nipc = "done" => /\ niInput.PodNet = <<podNet>>
                               /\ niInput.ServiceNet = <<serviceNet>>

C14_Witness ==
    /\ nipc = "done"
    /\ masterIPs = <<"fd00::1", "fd00::1">>
    /\ niInput.PodNet = <<"fc00:db8:10::/56">>
    /\ niInput.ServiceNet = <<"fc00:db8:20::/112">>
    /\ loopbackIP = "::1"

C16_FamilyMatchesMasters ==
    nipc = "done" =>
        \A k \in 1..Len(niInput.MasterIPs) :
            niInput.MasterIPs[k] \in ParsesAsIP =>
                /\ (niInput.PodNet[1] = DefaultIPv6PodNet)
                       <=> (niInput.MasterIPs[k] \notin HasTo4)
                /\ (niInput.ServiceNet[1] = DefaultIPv6ServiceNet)
                       <=> (niInput.MasterIPs[k] \notin HasTo4)

\* C17: the steps of NewInput run once each in the order of StepOrder; the
\* first step that fails makes NewInput return that step's error with a nil
\* Input and no later step runs; a non-nil Input is returned only when every
\* step succeeded, and it has all four certs and all tokens populated.
C17_AllOrNothing ==
    /\ Len(ran) <= NumSteps
    /\ ran = SubSeq(StepOrder, 1, Len(ran))
    /\ nipc = "failed" =>
           /\ niInput.isNil
           /\ Len(ran) > 0
           /\ niErr.step = ran[Len(ran)]
           /\ niErr.why \in FailPoints(niErr.step)
           /\ \A k \in 1..NumSteps :
                  (vals[StepOrder[k]] # "") <=> (k < Len(ran))
    /\ nipc = "done" => ~niInput.isNil
    /\ ~niInput.isNil =>
           /\ nipc = "done"
           /\ ran = StepOrder
           /\ niErr = NoStepErr
           /\ \A c \in {"Admin", "Etcd", "K8s", "OS"} : niInput.Certs[c] # ""
           /\ \A t \in {"BootstrapToken", "AESCBCEncryptionSecret",
                        "CertificateKey"} : niInput.KubeadmTokens[t] # ""
           /\ niInput.TrustdInfo.Token # ""

C17_Witness ==
    /\ nipc = "failed"
    /\ niInput.isNil
    /\ niErr.step = "k8sCA"
    /\ ran = SubSeq(StepOrder, 1, 6)
    /\ vals["etcdCA"] # ""
    /\ vals["k8sCA"] = ""

\* C18 as stated: a randBytes(n) that succeeds returns exactly n characters,
\* each one of the 36 symbols 0-9a-z; a genToken(6, 16) that succeeds returns
\* 22 characters: 6 symbols, a dot at index 6 and 16 symbols.
C18_TokenShape22 ==
    LET alphabet == {validBootstrapTokenChars[k] : k \in 1..36}
    IN /\ (tpc = "after" /\ rbRet.err = NilErr) =>
              /\ Len(rbRet.val) = length
              /\ \A k \in 1..Len(rbRet.val) : rbRet.val[k] \in alphabet
       /\ (tpc = "done" /\ ret.err = NilErr /\ call.fn = "genToken") =>
              /\ Len(ret.val) = 22
              /\ ret.val[7] = "."
              /\ \A k \in (1..Len(ret.val)) \ {7} : ret.val[k] \in alphabet

\* C18: a randBytes(n) that succeeds returns exactly n characters, each one
\* of the 36 symbols 0-9a-z, for every n and every byte stream; a genToken(6,
\* 16) that succeeds returns 23 characters: 6 symbols, a dot at index 6 and
\* 16 symbols.
C18_TokenShape ==
    LET alphabet == {validBootstrapTokenChars[k] : k \in 1..36}
    IN /\ Cardinality(alphabet) = 36
       /\ (tpc = "after" /\ rbRet.err = NilErr) =>
              /\ Len(rbRet.val) = length
              /\ \A k \in 1..Len(rbRet.val) : rbRet.val[k] \in alphabet
       /\ (tpc = "done" /\ ret.err = NilErr /\ call.fn = "randBytes") =>
              /\ Len(ret.val) = call.first
              /\ \A k \in 1..Len(ret.val) : ret.val[k] \in alphabet
       /\ (tpc = "done" /\ ret.err = NilErr /\ call.fn = "genToken") =>
              /\ Len(ret.val) = 23
              /\ ret.val[7] = "."
              /\ \A k \in (1..6) \cup (8..23) : ret.val[k] \in alphabet

C18_Witness ==
    /\ tpc = "done"
    /\ call.fn = "genToken"
    /\ pattern = <<252, 35>>
    /\ ret.err = NilErr
    /\ Len(ret.val) = 23
    /\ ret.val[6] = "z"
    /\ ret.val[7] = "."
    /\ ret.val[23] = "z"

\* C19: a byte drawn by randBytes is discarded and drawn again exactly when
\* it is >= 252; an accepted byte b stores the symbol alphabet[b mod 36]; and
\* the symbol stored is the image of exactly 7 of the accepted byte values.
C19_RejectionSampling ==
    [][tpc = "test" =>
          IF b >= 252
          THEN token' = token /\ tpc' = "read"
          ELSE /\ token' = Append(token, validBootstrapTokenChars[(b % 36) + 1])
               /\ Cardinality({x \in Bytes :
                      Accepted(x) /\ Symbol(x) = token'[Len(token')]}) = 7
      ]_vars

C19_Witness ==
    /\ call.fn = "randBytes"
    /\ call.first = 1
    /\ pattern = <<252, 251>>
    /\ b = 251
    /\ token = <<"z">>
    /\ tpc = "ret"

\* C20: when a draw from the entropy source fails, randBytes returns the empty
\* string with the error, whatever the token holds by then, and the function
\* called (randBytes, genToken, generateCertificateKey) returns the empty
\* string with that error.
C20_EntropyErrorReturnsEmpty ==
    [][/\ (tpc = "read" /\ tpc' # "read" /\ tpc' # "test") =>
              /\ rbRet'.val = <<>>
              /\ rbRet'.err = ErrEntropy
              /\ tpc' = "after"
       /\ (tpc = "after" /\ rbRet.err = ErrEntropy) =>
              /\ ret'.val = <<>>
              /\ ret'.err = ErrEntropy
              /\ tpc' = "done"
      ]_vars

C20_Witness ==
    /\ tpc = "done"
    /\ call.fn = "genToken"
    /\ part = 1
    /\ Len(token) > 0
    /\ b = 252
    /\ ret = [val |-> <<>>, err |-> ErrEntropy]

\* C21: the certificate key is the digest of the 32 bytes drawn from the
\* entropy source as they are, each of which can be any value in 0..255, not
\* of a string over the 36-symbol alphabet.
C21_DigestOfRawBytes ==
    (tpc = "done" /\ call.fn = "generateCertificateKey" /\ ret.err = NilErr) =>
        ret.val = Sha256Hex([k \in 1..32 |-> pattern[((k - 1) % Len(pattern)) + 1]])

\* C22: after a first successful EnforceCommonMasterRequirements every later
\* call of it, with any secret, succeeds, writes neither file again and
\* leaves the contents of both files unchanged.
C22_LaterCallIsNoOp ==
    [][(/\ enforced
        /\ cisCalls' = cisCalls + 1
        /\ cisOp' = "EnforceCommonMasterRequirements") =>
          /\ cisErr' = "nil"
          /\ auditWrites' = auditWrites
          /\ auditFile'.content = auditFile.content
          /\ encFile'.content = encFile.content
      ]_vars

\* C23: the chunks sent on the channel are, in order, a gap-free and
\* duplicate-free prefix of the file starting at offset 0; every chunk has
\* between 1 and Size bytes; the read offset is the number of bytes handed
\* to delivery and never decreases.
C23_ChunksArePrefix ==
    [][LET total == IF Len(sent') = 0 THEN 0 ELSE sent'[Len(sent')].to
       IN /\ \A k \in 1..Len(sent') :
                 /\ sent'[k].from = (IF k = 1 THEN 0 ELSE sent'[k - 1].to)
                 /\ sent'[k].to - sent'[k].from >= 1
                 /\ sent'[k].to - sent'[k].from <= size'
          /\ total <= fileLen'
          /\ cpc' = "deliver" => (chunk'.from = total /\ chunk'.to = offset')
          /\ cpc' \in {"read", "watch"} => offset' = total
          /\ offset' \in {total, chunk'.to}
          /\ offset' <= fileLen'
          /\ offset' >= offset
      ]_vars

C23_Witness ==
    /\ size = 1
    /\ fileLen = 2
    /\ Len(events) > 0
    /\ cancelled
    /\ sent = <<[from |-> 0, to |-> 1], [from |-> 1, to |-> 2]>>
    /\ offset = 2

C25_CancelClosesOnce ==
    /\ [](closes <= 1 /\ (cpc = "closed" <=> closes = 1))
    /\ [][cpc = "closed" => (cpc' = "closed" /\ sent' = sent /\ closes' = closes)]_vars
    /\ (cancelled ~> cpc = "closed")

C25_Witness ==
    /\ cpc = "closed"
    /\ exitWhy = "cancelled"
    /\ closes = 1
    /\ Len(chBuf) = 1
    /\ Len(sent) = 1
    /\ offset > sent[1].to

\* C26: a Remove event for the watched file always makes the reader stop and
\* close the channel in the end, whether the reader is in the watch loop or
\* blocked delivering a chunk when it arrives.
C26_RemoveStopsReader == removed ~> cpc = "closed"

\* C29: NewRemoteGenerator returns either a generator with a nil error or no
\* generator with a non-nil error, never neither; with an empty endpoint
\* list it returns no generator and an error without dialing anything.
C29_GeneratorOrError ==
    [][(pc = "Select" /\ pc' # "Select") =>
          /\ (g' # Nil) <=> (retErr' = NoError)
          /\ Len(endpoints) = 0 =>
                 /\ g' = Nil
                 /\ retErr' # NoError
                 /\ dialLog' = <<>>
      ]_vars

C29_Witness ==
    /\ pc = "Failed"
    /\ endpoints = <<>>
    /\ g = Nil
    /\ retErr = ErrNoEndpoints
    /\ dialLog = <<>>

\* C30: the address family NewInput selects is the one of the master IP list
\* without its unparsable entries; with a master IP list that is empty or
\* holds only entries that do not parse as IP addresses, NewInput selects the IPv4 defaults, fails only
\* if one of its generator steps fails, and otherwise returns an Input with
\* that list and the IPv4 nets.
C30_UnparsableMastersAccepted ==
  /\ nipc \in {"step", "done", "failed"} =>
        ((podNet = DefaultIPv6PodNet) <=>
            isIPv6(SelectSeq(masterIPs, LAMBDA a : a \in ParsesAsIP)))
  /\
    (/\ nipc \in {"step", "done", "failed"}
     /\ \A k \in 1..Len(masterIPs) : masterIPs[k] = "master-1.local") =>
        /\ loopbackIP = "127.0.0.1"
        /\ podNet = DefaultIPv4PodNet
        /\ serviceNet = DefaultIPv4ServiceNet
        /\ nipc = "failed" => (niErr.step \in Steps /\ Len(ran) > 0)
        /\ (nipc = "step" /\ step = NumSteps + 1) => ENABLED Assemble
        /\ nipc = "done" =>
               /\ ~niInput.isNil
               /\ niErr = NoStepErr
               /\ niInput.MasterIPs = masterIPs
               /\ niInput.PodNet = <<"10.244.0.0/16">>
               /\ niInput.ServiceNet = <<"10.96.0.0/12">>

C30_Witness ==
    /\ nipc = "done"
    /\ masterIPs = <<"master-1.local">>
    /\ ~niInput.isNil
    /\ niInput.MasterIPs = <<"master-1.local">>
    /\ niInput.PodNet = <<"10.244.0.0/16">>

\* C27: the channel is closed at most once and nothing is sent after it; a
\* Walker call whose root cannot be stat'ed returns an error and starts no
\* goroutine; once the context is cancelled the goroutine closes the channel
\* whether or not the consumer receives, and with a consumer that keeps
\* receiving it closes the channel in every case.
C27_GoroutineClosesChannel ==
    /\ [](wCloses <= 1)
    /\ []((tree[<<>>] = "none" /\ wpc \notin {"idle", "call"}) =>
             /\ wpc = "failed"
             /\ wErr = "stat error"
             /\ ~started
             /\ wCloses = 0
             /\ wSent = <<>>)
    /\ [][wSent' # wSent => (wCloses = 0 /\ started)]_vars
    /\ (started /\ wCancelled) ~> (wCloses = 1)
    /\ started ~> (wCloses = 1 \/ ~receiving)

C27_Witness ==
    /\ wpc = "closed"
    /\ wCancelled
    /\ wCloses = 1
    /\ Len(wSent) = 2
    /\ wSent[1].Error = "nil"
    /\ wSent[2].Error = "context canceled"
    /\ receiving

\* C28: with a maximum recursion depth d >= 0 no item sent lies deeper than
\* max(d, 1) levels below the root; when the walk ends without a
\* cancellation and without a path that could not be read, every path at a
\* depth <= max(d, 1), or every path of the tree when d = -1, was sent (but
\* for a root directory that was to be skipped).
C28_DepthLimited ==
    LET limit == IF maxRecurseDepth > 1 THEN maxRecurseDepth ELSE 1
    IN  /\ maxRecurseDepth >= 0 =>
               \A k \in 1..Len(wSent) :
                   wSent[k].Error # "context canceled" => Len(wSent[k].node) <= limit
        /\ (/\ wpc = "closed"
            /\ ~wCancelled
            /\ \A n \in AllNodes : tree[n] # "unreadable") =>
               \A n \in AllNodes :
                   (/\ tree[n] # "none"
                    /\ maxRecurseDepth >= 0 => Len(n) <= limit
                    /\ ~(n = <<>> /\ skipRoot /\ tree[n] = "dir")) =>
                       \E k \in 1..Len(wSent) :
                           wSent[k].node = n /\ wSent[k].Error = "nil"

=========================================================================
